---- MODULE Spec2Model ----
(***************************************************************************)
(* keyring-store: the storage port of ringforge.                           *)
(*                                                                         *)
(* The model follows src/store/src: the redb tables and the Store methods  *)
(* (store.rs), the request dispatcher handle_request and the serial frame  *)
(* loop of main (main.rs), and the message catalogue (protocol.rs).        *)
(*                                                                         *)
(* Byte strings (Vec<u8>, &[u8], String) are sequences of byte values.     *)
(* Option<T> is a sequence of length 0 (None) or 1 (Some).  Result<T> is a *)
(* record with an err flag.  Every Store method takes one more argument    *)
(* than in the source, fail: whether the embedded database returns an      *)
(* error somewhere inside that call (begin, open_table, insert, get,       *)
(* commit).  A write transaction that is dropped before its commit has     *)
(* returned is aborted by redb, so such a call leaves the tables as they   *)
(* were.  The standard input and output pipes themselves do not fail       *)
(* other than by end of input.                                             *)
(***************************************************************************)
EXTENDS Integers, Sequences, FiniteSets, TLC

VARIABLES
    db,             \* Store.db: the four tables of keyring.redb
    pc,             \* position of main: "loop", "dispatch", "respond", "exit"
    request,        \* main's (ref_id, request), NoMsg outside an iteration
    response,       \* main's response, NoMsg until handle_request returned
    storage_failed, \* a Store call of the current handle_request returned Err
    received,       \* ref_ids of the request frames decoded so far, in order
    sent,           \* ref_ids of the response frames written so far, in order
    last_read,      \* what the read_frame call that ended the session saw
    exit_code,      \* process exit: "none" (running), "ok" (0), "err" (non-zero)
    local,          \* merkle.rs: the first argument of compute_root, diff_roots
    remote,         \* merkle.rs: the second argument of diff_roots
    result,         \* merkle.rs: what the function returned
    peer_db         \* the tables of a second keyring-store, the sync peer

\* what the session of main leaves alone
outside == <<local, remote, result, peer_db>>

vars == <<db, pc, request, response, storage_failed, received, sent,
          last_read, exit_code, local, remote, result, peer_db>>

----------------------------------------------------------------------------
(* Bounds of the model *)

MaxFrames == 2      \* request frames read in one session
MaxChanges == 2     \* changes in one ApplyChanges batch
MaxRoots == 2       \* entries of one GetChanges known_roots list
MaxIds == 2         \* entries of one GetRoots doc_ids list

(* Program constants *)

HashLen == 32       \* blake3 output length in bytes
PrefixLen == 4      \* bytes of the frame length prefix

----------------------------------------------------------------------------
(* Sequences and byte strings *)

Range(s) == {s[i] : i \in 1..Len(s)}

SeqsUpTo(S, n) == UNION {[1..k -> S] : k \in 0..n}

\* str::cmp / <[u8]>::cmp: byte-wise lexicographic order
RECURSIVE LexLess(_, _)
LexLess(a, b) ==
    IF Len(b) = 0 THEN FALSE
    ELSE IF Len(a) = 0 THEN TRUE
    ELSE IF a[1] # b[1] THEN a[1] < b[1]
    ELSE LexLess(Tail(a), Tail(b))

\* the keys of a redb table in iteration order (ascending)
RECURSIVE SortedKeys(_)
SortedKeys(S) ==
    IF S = {} THEN <<>>
    ELSE LET m == CHOOSE x \in S : \A y \in S \ {x} : LexLess(x, y)
         IN <<m>> \o SortedKeys(S \ {m})

None == <<>>
Some(v) == <<v>>

----------------------------------------------------------------------------
(* Digest.  blake3::hash is a collision-resistant function from byte       *)
(* strings to 32 bytes.  It is modelled by a small keyed checksum expanded *)
(* to HashLen bytes: a function of the input bytes alone, never the input  *)
(* itself, and free of collisions on the inputs of this model              *)
(* (DigestInjective below).                                                *)

\* the bytes lo..hi folded into acc, left to right
RECURSIVE MixRange(_, _, _, _)
MixRange(acc, bytes, lo, hi) ==
    IF lo > hi THEN acc
    ELSE IF lo = hi THEN (acc * 31 + bytes[lo] + 1) % 65521
    ELSE LET mid == (lo + hi) \div 2
             left == MixRange(acc, bytes, lo, mid)
         IN IF left >= 0                \* always: the left half is folded first
            THEN MixRange(left, bytes, mid + 1, hi)
            ELSE acc

Mix(acc, bytes) == MixRange(acc, bytes, 1, Len(bytes))

Digest(bytes) ==
    LET f == Mix(7, bytes)
    IN [i \in 1..HashLen |->
            IF i = 1 THEN f \div 256
            ELSE IF i = 2 THEN f % 256
            ELSE (f * i) % 256]

----------------------------------------------------------------------------
(* Values the host sends *)

Ids == {<<97>>, <<98>>}             \* "a", "b"
MetaVals == {<<>>, <<9>>}
DataVals == {<<1>>, <<2>>}
RefIds == {1, 2}

\* digests of stored payloads, and a value that is no 32-byte digest
HashVals == {Digest(d) : d \in DataVals} \cup {<<7>>}

DigestInjective ==
    \A x, y \in DataVals \cup MetaVals \cup HashVals :
        Digest(x) = Digest(y) => x = y

----------------------------------------------------------------------------
(* store.rs: tables.  A table is a function from its stored keys to values *)

EmptyTable == [k \in {} |-> <<>>]

Insert(table, k, v) ==
    [x \in (DOMAIN table) \cup {k} |-> IF x = k THEN v ELSE table[x]]

Remove(table, k) == [x \in (DOMAIN table) \ {k} |-> table[x]]

Get(table, k) == IF k \in DOMAIN table THEN Some(table[k]) ELSE None

Ok(v) == [err |-> FALSE, val |-> v]
Err == [err |-> TRUE]

\* Store::open on a fresh directory: the four tables exist and are empty
EmptyDb ==
    [blobs |-> EmptyTable, documents |-> EmptyTable,
     doc_data |-> EmptyTable, doc_hashes |-> EmptyTable]

\* put_blob that rewrites the table with the new entry alone
put_blob_replacing(d, data, fail) ==
    LET hash == Digest(data)
    IN IF fail THEN [db |-> d, res |-> Err]
       ELSE [db |-> [d EXCEPT !.blobs = Insert(EmptyTable, hash, data)],
             res |-> Ok(hash)]

\* Store::put_blob
put_blob(d, data, fail) ==
    LET hash == Digest(data)
        txn == [d EXCEPT !.blobs = Insert(@, hash, data)]
    IN IF fail THEN [db |-> d, res |-> Err]
       ELSE [db |-> txn, res |-> Ok(hash)]

\* Store::get_blob
get_blob(d, hash, fail) ==
    IF fail THEN Err ELSE Ok(Get(d.blobs, hash))

\* Store::has_blob
has_blob(d, hash, fail) ==
    IF fail THEN Err ELSE Ok(Get(d.blobs, hash) # None)

\* put_document without a transaction: each insert is durable at once, and
\* a failure after the first insert leaves it behind
put_document_unjournalled(d, id, meta, crdt_state, fail) ==
    LET state_hash == Digest(crdt_state)
        docs == Insert(d.documents, id, meta)
        data == Insert(d.doc_data, id, crdt_state)
        hashes == Insert(d.doc_hashes, id, state_hash)
    IN IF fail THEN [db |-> [d EXCEPT !.documents = docs], res |-> Err]
       ELSE [db |-> [d EXCEPT !.documents = docs, !.doc_data = data,
                              !.doc_hashes = hashes],
             res |-> Ok(<<>>)]

\* put_document hashing the wrong argument
put_document_hashing_meta(d, id, meta, crdt_state, fail) ==
    LET state_hash == Digest(meta)
    IN IF fail THEN [db |-> d, res |-> Err]
       ELSE [db |-> [d EXCEPT !.documents = Insert(@, id, meta),
                              !.doc_data = Insert(@, id, crdt_state),
                              !.doc_hashes = Insert(@, id, state_hash)],
             res |-> Ok(<<>>)]

\* put_document that writes meta only for a new document
put_document_keeping_meta(d, id, meta, crdt_state, fail) ==
    LET state_hash == Digest(crdt_state)
        docs == IF id \in DOMAIN d.documents THEN d.documents
                ELSE Insert(d.documents, id, meta)
    IN IF fail THEN [db |-> d, res |-> Err]
       ELSE [db |-> [d EXCEPT !.documents = docs,
                              !.doc_data = Insert(@, id, crdt_state),
                              !.doc_hashes = Insert(@, id, state_hash)],
             res |-> Ok(<<>>)]

\* Store::put_document
put_document(d, id, meta, crdt_state, fail) ==
    LET state_hash == Digest(crdt_state)
        docs == Insert(d.documents, id, meta)
        data == Insert(d.doc_data, id, crdt_state)
        hashes == Insert(d.doc_hashes, id, state_hash)
        txn == [d EXCEPT !.documents = docs, !.doc_data = data,
                         !.doc_hashes = hashes]
    IN IF fail THEN [db |-> d, res |-> Err]
       ELSE [db |-> txn, res |-> Ok(<<>>)]

\* Store::get_document
get_document(d, id, fail) ==
    IF fail THEN Err
    ELSE LET m == Get(d.documents, id)
             s == Get(d.doc_data, id)
         IN IF m # None /\ s # None THEN Ok(Some(<<m[1], s[1]>>))
            ELSE Ok(None)

\* delete_document that looks for the id after removing it
delete_document_looking_late(d, id, fail) ==
    LET txn == [d EXCEPT !.documents = Remove(@, id),
                         !.doc_data = Remove(@, id),
                         !.doc_hashes = Remove(@, id)]
        existed == Get(txn.documents, id) # None
    IN IF fail THEN [db |-> d, res |-> Err]
       ELSE [db |-> txn, res |-> Ok(existed)]

\* Store::delete_document
delete_document(d, id, fail) ==
    LET existed == Get(d.documents, id) # None
        txn == [d EXCEPT !.documents = Remove(@, id),
                         !.doc_data = Remove(@, id),
                         !.doc_hashes = Remove(@, id)]
    IN IF fail THEN [db |-> d, res |-> Err]
       ELSE [db |-> txn, res |-> Ok(existed)]

\* Store::list_documents
list_documents(d, fail) ==
    IF fail THEN Err ELSE Ok(SortedKeys(DOMAIN d.documents))

\* get_doc_hash that never finds an entry
get_doc_hash_missing(d, id, fail) ==
    IF fail THEN Err ELSE Ok(None)

\* Store::get_doc_hash
get_doc_hash(d, id, fail) ==
    IF fail THEN Err ELSE Ok(Get(d.doc_hashes, id))

\* Store::get_doc_hashes
RECURSIVE LookupHashes(_, _)
LookupHashes(hashes, ids) ==
    IF Len(ids) = 0 THEN <<>>
    ELSE LET v == Get(hashes, ids[1])
             rest == LookupHashes(hashes, Tail(ids))
         IN IF v # None THEN <<(<<ids[1], v[1]>>)>> \o rest ELSE rest

get_doc_hashes(d, ids, fail) ==
    IF fail THEN Err ELSE Ok(LookupHashes(d.doc_hashes, ids))

\* Store::all_doc_hashes
all_doc_hashes(d, fail) ==
    IF fail THEN Err
    ELSE LET keys == SortedKeys(DOMAIN d.doc_hashes)
         IN Ok([i \in 1..Len(keys) |-> <<keys[i], d.doc_hashes[keys[i]]>>])

----------------------------------------------------------------------------
(* protocol.rs: messages *)

\* enum Request, in declaration order: bincode writes the variant index
RequestVariants ==
    <<"PutBlob", "GetBlob", "HasBlob", "PutDocument", "GetDocument",
      "DeleteDocument", "ListDocuments", "GetRoots", "GetChanges",
      "ApplyChanges">>

\* struct Change
Change(doc_id, data, hash) == [doc_id |-> doc_id, data |-> data, hash |-> hash]

\* struct Root
Root(doc_id, hash) == [doc_id |-> doc_id, hash |-> hash]

\* enum Response
RespOk == [type |-> "Ok"]
RespBlob(data) == [type |-> "Blob", data |-> data]
RespBlobStored(hash) == [type |-> "BlobStored", hash |-> hash]
RespBlobExists(exists) == [type |-> "BlobExists", exists |-> exists]
RespDocument(id, meta, crdt_state) ==
    [type |-> "Document", id |-> id, meta |-> meta, crdt_state |-> crdt_state]
RespDocumentList(ids) == [type |-> "DocumentList", ids |-> ids]
RespNotFound == [type |-> "NotFound"]
RespRoots(roots) == [type |-> "Roots", roots |-> roots]
RespChanges(changes) == [type |-> "Changes", changes |-> changes]
RespError == [type |-> "Error", message |-> "storage error"]

NoMsg == [type |-> "none"]

\* the requests of the model, one set per variant
\* the changes a peer sends: one whose hash is the digest of its data, one
\* that advertises the digest of other data, one whose hash is no digest
ChangeVals ==
    {Change(id, c[1], c[2]) : id \in Ids,
        c \in {<<(<<1>>), Digest(<<1>>)>>, <<(<<2>>), Digest(<<1>>)>>}}
    \cup {Change(<<97>>, <<1>>, <<7>>)}

Requests ==
    {[type |-> "PutBlob", data |-> x] : x \in DataVals}
    \cup {[type |-> "GetBlob", hash |-> h] : h \in HashVals}
    \cup {[type |-> "HasBlob", hash |-> h] : h \in HashVals}
    \cup {[type |-> "PutDocument", id |-> i, meta |-> m, crdt_state |-> s] :
            i \in Ids, m \in MetaVals, s \in DataVals}
    \cup {[type |-> "GetDocument", id |-> i] : i \in Ids}
    \cup {[type |-> "DeleteDocument", id |-> i] : i \in Ids}
    \cup {[type |-> "ListDocuments"]}
    \cup {[type |-> "GetRoots", doc_ids |-> l] : l \in SeqsUpTo(Ids, MaxIds)}
    \cup {[type |-> "GetChanges", known_roots |-> l] :
            l \in SeqsUpTo(HashVals, MaxRoots)}
    \cup {[type |-> "ApplyChanges", changes |-> l] :
            l \in SeqsUpTo(ChangeVals, MaxChanges)}

----------------------------------------------------------------------------
(* main.rs: handle_request.  failAt is the number of the Store call of     *)
(* this request that returns Err (0: none does).  Each arm yields the      *)
(* tables it leaves, the response, and whether a Store call failed.        *)

Handled(d, resp, failed) == [db |-> d, resp |-> resp, failed |-> failed]

\* Request::PutBlob
PutBlobArm(d, req, failAt) ==
    LET r == put_blob(d, req.data, failAt = 1)
    IN IF r.res.err THEN Handled(r.db, RespError, TRUE)
       ELSE Handled(r.db, RespBlobStored(r.res.val), FALSE)

\* GetBlob answering a storage failure like an absent blob
GetBlobArmSwallowing(d, req, failAt) ==
    LET r == get_blob(d, req.hash, failAt = 1)
    IN IF r.err THEN Handled(d, RespNotFound, TRUE)
       ELSE IF r.val # None THEN Handled(d, RespBlob(r.val[1]), FALSE)
       ELSE Handled(d, RespNotFound, FALSE)

\* Request::GetBlob
GetBlobArm(d, req, failAt) ==
    LET r == get_blob(d, req.hash, failAt = 1)
    IN IF r.err THEN Handled(d, RespError, TRUE)
       ELSE IF r.val # None THEN Handled(d, RespBlob(r.val[1]), FALSE)
       ELSE Handled(d, RespNotFound, FALSE)

\* Request::HasBlob
HasBlobArm(d, req, failAt) ==
    LET r == has_blob(d, req.hash, failAt = 1)
    IN IF r.err THEN Handled(d, RespError, TRUE)
       ELSE Handled(d, RespBlobExists(r.val), FALSE)

\* Request::PutDocument
PutDocumentArm(d, req, failAt) ==
    LET r == put_document(d, req.id, req.meta, req.crdt_state, failAt = 1)
    IN IF r.res.err THEN Handled(r.db, RespError, TRUE)
       ELSE Handled(r.db, RespOk, FALSE)

\* GetDocument that hands the document over: the id is gone afterwards
GetDocumentArmConsuming(d, req, failAt) ==
    LET r == get_document(d, req.id, failAt = 1)
    IN IF r.err THEN Handled(d, RespError, TRUE)
       ELSE IF r.val # None
            THEN Handled([d EXCEPT !.documents = Remove(@, req.id),
                                   !.doc_data = Remove(@, req.id),
                                   !.doc_hashes = Remove(@, req.id)],
                         RespDocument(req.id, r.val[1][1], r.val[1][2]), FALSE)
       ELSE Handled(d, RespNotFound, FALSE)

\* Request::GetDocument
GetDocumentArm(d, req, failAt) ==
    LET r == get_document(d, req.id, failAt = 1)
    IN IF r.err THEN Handled(d, RespError, TRUE)
       ELSE IF r.val # None
            THEN Handled(d, RespDocument(req.id, r.val[1][1], r.val[1][2]), FALSE)
       ELSE Handled(d, RespNotFound, FALSE)

\* Request::DeleteDocument
DeleteDocumentArm(d, req, failAt) ==
    LET r == delete_document(d, req.id, failAt = 1)
    IN IF r.res.err THEN Handled(r.db, RespError, TRUE)
       ELSE IF r.res.val THEN Handled(r.db, RespOk, FALSE)
       ELSE Handled(r.db, RespNotFound, FALSE)

\* Request::ListDocuments
ListDocumentsArm(d, req, failAt) ==
    LET r == list_documents(d, failAt = 1)
    IN IF r.err THEN Handled(d, RespError, TRUE)
       ELSE Handled(d, RespDocumentList(r.val), FALSE)

\* GetRoots that answers with every root whatever doc_ids holds
GetRootsArmListingAll(d, req, failAt) ==
    LET hashes == all_doc_hashes(d, failAt = 1)
    IN IF hashes.err THEN Handled(d, RespError, TRUE)
       ELSE Handled(d,
                RespRoots([i \in 1..Len(hashes.val) |->
                              Root(hashes.val[i][1], hashes.val[i][2])]),
                FALSE)

\* Request::GetRoots
GetRootsArm(d, req, failAt) ==
    LET hashes == IF Len(req.doc_ids) = 0
                  THEN all_doc_hashes(d, failAt = 1)
                  ELSE get_doc_hashes(d, req.doc_ids, failAt = 1)
    IN IF hashes.err THEN Handled(d, RespError, TRUE)
       ELSE Handled(d,
                RespRoots([i \in 1..Len(hashes.val) |->
                              Root(hashes.val[i][1], hashes.val[i][2])]),
                FALSE)

\* Request::GetChanges: the loop over local_pairs, from pair i on
RECURSIVE CollectChanges(_, _, _, _, _)
CollectChanges(d, local_pairs, known_set, i, failAt) ==
    IF i > Len(local_pairs) THEN Ok(<<>>)
    ELSE LET doc_id == local_pairs[i][1]
             hash == local_pairs[i][2]
         IN IF hash \notin known_set
            THEN LET g == get_document(d, doc_id, failAt = i + 1)
                 IN IF g.err THEN Err
                    ELSE LET rest == CollectChanges(d, local_pairs, known_set,
                                                    i + 1, failAt)
                         IN IF rest.err THEN Err
                            ELSE IF g.val # None
                                 THEN Ok(<<Change(doc_id, g.val[1][2], hash)>>
                                         \o rest.val)
                            ELSE rest
            ELSE CollectChanges(d, local_pairs, known_set, i + 1, failAt)

\* GetChanges that ignores known_roots
GetChangesArmSendingAll(d, req, failAt) ==
    LET lp == all_doc_hashes(d, failAt = 1)
    IN IF lp.err THEN Handled(d, RespError, TRUE)
       ELSE LET c == CollectChanges(d, lp.val, {}, 1, failAt)
            IN IF c.err THEN Handled(d, RespError, TRUE)
               ELSE Handled(d, RespChanges(c.val), FALSE)

GetChangesArm(d, req, failAt) ==
    LET lp == all_doc_hashes(d, failAt = 1)
    IN IF lp.err THEN Handled(d, RespError, TRUE)
       ELSE LET known_set == Range(req.known_roots)
                c == CollectChanges(d, lp.val, known_set, 1, failAt)
            IN IF c.err THEN Handled(d, RespError, TRUE)
               ELSE Handled(d, RespChanges(c.val), FALSE)

\* Request::ApplyChanges: the loop over changes, from change k on.  The
\* Store calls of change k are numbered 2k-1 (get_doc_hash), 2k (put_document)
RECURSIVE ApplyFrom(_, _, _, _)
ApplyFrom(d, changes, k, failAt) ==
    IF k > Len(changes) THEN Handled(d, RespOk, FALSE)
    ELSE LET change == changes[k]
             existing == get_doc_hash(d, change.doc_id, failAt = 2 * k - 1)
         IN IF existing.err THEN Handled(d, RespError, TRUE)
            ELSE IF existing.val = Some(change.hash)
                 THEN ApplyFrom(d, changes, k + 1, failAt)
            ELSE LET p == put_document(d, change.doc_id, <<>>, change.data,
                                       failAt = 2 * k)
                 IN IF p.res.err THEN Handled(p.db, RespError, TRUE)
                    ELSE ApplyFrom(p.db, changes, k + 1, failAt)

ApplyChangesArm(d, req, failAt) == ApplyFrom(d, req.changes, 1, failAt)

handle_request(d, req, failAt) ==
    CASE req.type = "PutBlob" -> PutBlobArm(d, req, failAt)
      [] req.type = "GetBlob" -> GetBlobArm(d, req, failAt)
      [] req.type = "HasBlob" -> HasBlobArm(d, req, failAt)
      [] req.type = "PutDocument" -> PutDocumentArm(d, req, failAt)
      [] req.type = "GetDocument" -> GetDocumentArm(d, req, failAt)
      [] req.type = "DeleteDocument" -> DeleteDocumentArm(d, req, failAt)
      [] req.type = "ListDocuments" -> ListDocumentsArm(d, req, failAt)
      [] req.type = "GetRoots" -> GetRootsArm(d, req, failAt)
      [] req.type = "GetChanges" -> GetChangesArm(d, req, failAt)
      [] req.type = "ApplyChanges" -> ApplyChangesArm(d, req, failAt)

\* how many Store calls a request can make at most
StoreCalls(d, req) ==
    CASE req.type = "GetChanges" -> 1 + Cardinality(DOMAIN d.doc_hashes)
      [] req.type = "ApplyChanges" -> 2 * Len(req.changes)
      [] OTHER -> 1

----------------------------------------------------------------------------
(* main.rs: frames.  What the next read_frame call finds on standard       *)
(* input: prefix is the number of bytes of the length prefix that arrive   *)
(* before end of input, missing the number of announced payload bytes that *)
(* never arrive, payload the payload bytes as the pair they were encoded   *)
(* from: the ref_id, bincode's variant index and the request's fields.     *)

TagOf(type) == CHOOSE t \in 0..(Len(RequestVariants) - 1) :
                   RequestVariants[t + 1] = type

\* bincode::serialize(&(ref_id, request)) on the host side
Encode(ref_id, req) == [ref_id |-> ref_id, tag |-> TagOf(req.type), body |-> req]

\* bincode::deserialize::<(RefId, Request)>: an unknown variant index is an error
deserialize(payload) ==
    IF payload.tag \in 0..(Len(RequestVariants) - 1)
    THEN Ok([ref_id |-> payload.ref_id, req |-> payload.body])
    ELSE Err

Inbound(prefix, missing, payload) ==
    [prefix |-> prefix, missing |-> missing, payload |-> payload]

NoInput == [prefix |-> 0, missing |-> 0, payload |-> NoMsg, read |-> FALSE]

WellFormedInputs ==
    {Inbound(PrefixLen, 0, Encode(r, q)) : r \in RefIds, q \in Requests}

\* end of input at a frame boundary (0) or inside the length prefix (1..3)
EndOfInputs == {Inbound(n, 0, NoMsg) : n \in 0..(PrefixLen - 1)}

\* end of input inside the payload of a frame
ShortBodyInputs ==
    {Inbound(PrefixLen, 1, Encode(r, [type |-> "ListDocuments"])) : r \in RefIds}

\* a complete frame whose payload names no Request variant
GarbledInputs ==
    {Inbound(PrefixLen, 0,
             [ref_id |-> r, tag |-> Len(RequestVariants), body |-> NoMsg]) :
        r \in RefIds}

\* read_frame: Ok(None), Ok(Some(payload)) or Err
read_frame(input) ==
    IF input.prefix < PrefixLen THEN Ok(None)
    ELSE IF input.missing > 0 THEN Err
    ELSE Ok(Some(input.payload))

Seen(input) == [prefix |-> input.prefix, missing |-> input.missing,
                payload |-> input.payload, read |-> TRUE]

Exit(code, input) ==
    /\ pc' = "exit"
    /\ exit_code' = code
    /\ last_read' = Seen(input)
    /\ UNCHANGED <<outside, db, request, response, storage_failed, received, sent>>

\* a loop head that skips a frame it cannot decode and reads on
ReadStepSkippingGarbled(input) ==
    /\ pc = "loop"
    /\ LET frame == read_frame(input)
       IN IF frame.err THEN Exit("err", input)
          ELSE IF frame.val = None THEN Exit("ok", input)
          ELSE LET msg == deserialize(frame.val[1])
               IN IF msg.err
                  THEN /\ last_read' = Seen(input)
                       /\ UNCHANGED <<outside, db, pc, request, response, storage_failed,
                                      received, sent, exit_code>>
                  ELSE /\ request' = msg.val
                       /\ received' = Append(received, msg.val.ref_id)
                       /\ pc' = "dispatch"
                       /\ UNCHANGED <<outside, db, response, storage_failed, sent,
                                      last_read, exit_code>>

\* main, the head of one loop iteration: read_frame and deserialize
ReadStep(input) ==
    /\ pc = "loop"
    /\ LET frame == read_frame(input)
       IN IF frame.err THEN Exit("err", input)
          ELSE IF frame.val = None THEN Exit("ok", input)
          ELSE LET msg == deserialize(frame.val[1])
               IN IF msg.err THEN Exit("err", input)
                  ELSE /\ request' = msg.val
                       /\ received' = Append(received, msg.val.ref_id)
                       /\ pc' = "dispatch"
                       /\ UNCHANGED <<outside, db, response, storage_failed, sent,
                                      last_read, exit_code>>

\* main: handle_request on the decoded request
Dispatch(type) ==
    /\ pc = "dispatch"
    /\ request.req.type = type
    /\ \E failAt \in 0..StoreCalls(db, request.req) :
          LET h == handle_request(db, request.req, failAt)
          IN /\ db' = h.db
             /\ response' = h.resp
             /\ storage_failed' = h.failed
    /\ pc' = "respond"
    /\ UNCHANGED <<outside, request, received, sent, last_read, exit_code>>

\* a loop tail that numbers its responses instead of echoing the ref_id
WriteResponseNumbered ==
    /\ pc = "respond"
    /\ sent' = Append(sent, Len(sent) + 1)
    /\ pc' = "loop"
    /\ request' = NoMsg
    /\ response' = NoMsg
    /\ storage_failed' = FALSE
    /\ UNCHANGED <<outside, db, received, last_read, exit_code>>

\* main, the tail of one loop iteration: serialize and write_frame; the
\* locals of the iteration are dropped
WriteResponse ==
    /\ pc = "respond"
    /\ sent' = Append(sent, request.ref_id)
    /\ pc' = "loop"
    /\ request' = NoMsg
    /\ response' = NoMsg
    /\ storage_failed' = FALSE
    /\ UNCHANGED <<outside, db, received, last_read, exit_code>>

\* the host writes one more request frame
ReadRequest ==
    /\ pc = "loop"
    /\ Len(received) < MaxFrames
    /\ \E input \in WellFormedInputs : ReadStep(input)

\* the host closes the pipe between frames or inside a length prefix
ReadEndOfInput ==
    /\ pc = "loop"
    /\ \E input \in EndOfInputs : ReadStep(input)

\* the host closes the pipe inside a payload
ReadShortBody ==
    /\ pc = "loop"
    /\ \E input \in ShortBodyInputs : ReadStep(input)

\* the host writes a frame that is no encoded request
ReadGarbled ==
    /\ pc = "loop"
    /\ \E input \in GarbledInputs : ReadStep(input)

HandlePutBlob == Dispatch("PutBlob")
HandleGetBlob == Dispatch("GetBlob")
HandleHasBlob == Dispatch("HasBlob")
HandlePutDocument == Dispatch("PutDocument")
HandleGetDocument == Dispatch("GetDocument")
HandleDeleteDocument == Dispatch("DeleteDocument")
HandleListDocuments == Dispatch("ListDocuments")
HandleGetRoots == Dispatch("GetRoots")
HandleGetChanges == Dispatch("GetChanges")
HandleApplyChanges == Dispatch("ApplyChanges")

Init ==
    /\ db = EmptyDb
    /\ pc = "loop"
    /\ request = NoMsg
    /\ response = NoMsg
    /\ storage_failed = FALSE
    /\ received = <<>>
    /\ sent = <<>>
    /\ last_read = NoInput
    /\ exit_code = "none"
    /\ local = <<>>
    /\ remote = <<>>
    /\ result = NoMsg
    /\ peer_db = EmptyDb

Next ==
    \/ ReadRequest
    \/ ReadEndOfInput
    \/ ReadShortBody
    \/ ReadGarbled
    \/ HandlePutBlob
    \/ HandleGetBlob
    \/ HandleHasBlob
    \/ HandlePutDocument
    \/ HandleGetDocument
    \/ HandleDeleteDocument
    \/ HandleListDocuments
    \/ HandleGetRoots
    \/ HandleGetChanges
    \/ HandleApplyChanges
    \/ WriteResponse

Spec == Init /\ [][Next]_vars

----------------------------------------------------------------------------
(* merkle.rs: compute_root *)

MaxLeaves == 3      \* pairs in one compute_root input

\* ids "a", "ab", "b", "c": a prefix pair and three single letters
MerkleIds == {<<97>>, <<97, 98>>, <<98>>, <<99>>}

PairVals == {<<id, Digest(x)>> : id \in MerkleIds, x \in DataVals}

\* Vec::sort_by with the key doc_id is a stable sort: a pair goes behind
\* every pair whose id is not greater
InsertById(sorted, p) ==
    LET k == Cardinality({i \in 1..Len(sorted) : ~LexLess(p[1], sorted[i][1])})
    IN SubSeq(sorted, 1, k) \o <<p>> \o SubSeq(sorted, k + 1, Len(sorted))

RECURSIVE SortedPrefix(_, _)
SortedPrefix(pairs, n) ==
    IF n = 0 THEN <<>>
    ELSE InsertById(SortedPrefix(pairs, n - 1), pairs[n])

\* compute_root without its sort
sort_by_id_skipped(pairs) == pairs

\* sorted.sort_by(|a, b| a.0.cmp(&b.0))
sort_by_id(pairs) == SortedPrefix(pairs, Len(pairs))

\* blake3::Hasher: update(a), update(b), finalize
HashPair(a, b) == Digest(a \o b)

\* the inner while loop and the odd element, from position i on
RECURSIVE PairUp(_)
PairUp(layer) ==
    IF Len(layer) >= 2
    THEN <<HashPair(layer[1], layer[2])>> \o PairUp(SubSeq(layer, 3, Len(layer)))
    ELSE layer

\* one pass of the outer while loop that pairs the odd element with itself
NextLayerDuplicating(layer) ==
    IF Len(layer) % 2 = 1
    THEN PairUp(layer \o <<layer[Len(layer)]>>)
    ELSE PairUp(layer)

\* one pass of the outer while loop: layer = next
NextLayer(layer) == PairUp(layer)

RECURSIVE Reduce(_)
Reduce(layer) ==
    IF Len(layer) > 1 THEN Reduce(NextLayer(layer)) ELSE layer[1]

ZeroRoot == [i \in 1..HashLen |-> 0]

compute_root(pairs) ==
    IF Len(pairs) = 0 THEN ZeroRoot
    ELSE LET sorted == sort_by_id(pairs)
             layer == [i \in 1..Len(sorted) |-> sorted[i][2]]
         IN Reduce(layer)

\* a caller applies compute_root to a list of (doc_id, hash) pairs
ComputeRoot ==
    /\ pc = "input"
    /\ result' = [type |-> "root", root |-> compute_root(local)]
    /\ pc' = "returned"
    /\ UNCHANGED <<db, request, response, storage_failed, received, sent,
                   last_read, exit_code, local, remote, peer_db>>

InitRoot ==
    /\ db = EmptyDb
    /\ pc = "input"
    /\ request = NoMsg
    /\ response = NoMsg
    /\ storage_failed = FALSE
    /\ received = <<>>
    /\ sent = <<>>
    /\ last_read = NoInput
    /\ exit_code = "none"
    /\ local \in SeqsUpTo(PairVals, MaxLeaves)
    /\ remote = <<>>
    /\ result = NoMsg
    /\ peer_db = EmptyDb

NextRoot == ComputeRoot

SpecRoot == InitRoot /\ [][NextRoot]_vars

----------------------------------------------------------------------------
(* merkle.rs: diff_roots *)

MaxEntries == 2     \* pairs in one root-set given to diff_roots

\* "a" with two digests, "b" and "ab" with one
RootSetVals == {<< <<97>>, Digest(<<1>>) >>, << <<97>>, Digest(<<2>>) >>,
                << <<98>>, Digest(<<1>>) >>, << <<97, 98>>, Digest(<<1>>) >>}

\* iter().map(..).collect::<HashMap>(): a later pair replaces an earlier
\* one of the same key
RECURSIVE CollectMap(_, _)
CollectMap(pairs, n) ==
    IF n = 0 THEN EmptyTable
    ELSE Insert(CollectMap(pairs, n - 1), pairs[n][1], pairs[n][2])

\* the orders in which a HashSet of these keys may be iterated
IterationOrders(keys) ==
    {o \in [1..Cardinality(keys) -> keys] :
        \A i, j \in 1..Cardinality(keys) : o[i] = o[j] => i = j}

NoDiff == [to_send |-> <<>>, to_request |-> <<>>]

\* the match that also sends a document the remote has with the same digest
DiffArmSendingEqual(local_map, remote_map, key, out) ==
    CASE key \in DOMAIN local_map /\ key \in DOMAIN remote_map ->
            [to_send |-> Append(out.to_send, key),
             to_request |-> IF local_map[key] = remote_map[key]
                            THEN out.to_request
                            ELSE Append(out.to_request, key)]
      [] key \in DOMAIN local_map /\ key \notin DOMAIN remote_map ->
            [out EXCEPT !.to_send = Append(@, key)]
      [] key \notin DOMAIN local_map /\ key \in DOMAIN remote_map ->
            [out EXCEPT !.to_request = Append(@, key)]

\* the match that only sends a document whose digests differ
DiffArmNotRequestingConflict(local_map, remote_map, key, out) ==
    CASE key \in DOMAIN local_map /\ key \in DOMAIN remote_map ->
            IF local_map[key] = remote_map[key] THEN out
            ELSE [out EXCEPT !.to_send = Append(@, key)]
      [] key \in DOMAIN local_map /\ key \notin DOMAIN remote_map ->
            [out EXCEPT !.to_send = Append(@, key)]
      [] key \notin DOMAIN local_map /\ key \in DOMAIN remote_map ->
            [out EXCEPT !.to_request = Append(@, key)]

\* match (local_map.get(key), remote_map.get(key)); (None, None) is
\* unreachable!()
DiffArm(local_map, remote_map, key, out) ==
    CASE key \in DOMAIN local_map /\ key \in DOMAIN remote_map ->
            IF local_map[key] = remote_map[key] THEN out
            ELSE [to_send |-> Append(out.to_send, key),
                  to_request |-> Append(out.to_request, key)]
      [] key \in DOMAIN local_map /\ key \notin DOMAIN remote_map ->
            [out EXCEPT !.to_send = Append(@, key)]
      [] key \notin DOMAIN local_map /\ key \in DOMAIN remote_map ->
            [out EXCEPT !.to_request = Append(@, key)]

\* for key in all_keys, the first n keys of the iteration
RECURSIVE DiffLoop(_, _, _, _)
DiffLoop(local_map, remote_map, order, n) ==
    IF n = 0 THEN NoDiff
    ELSE DiffArm(local_map, remote_map, order[n],
                 DiffLoop(local_map, remote_map, order, n - 1))

InsertId(sorted, key) ==
    LET k == Cardinality({i \in 1..Len(sorted) : ~LexLess(key, sorted[i])})
    IN SubSeq(sorted, 1, k) \o <<key>> \o SubSeq(sorted, k + 1, Len(sorted))

RECURSIVE SortedIdPrefix(_, _)
SortedIdPrefix(ids, n) ==
    IF n = 0 THEN <<>>
    ELSE InsertId(SortedIdPrefix(ids, n - 1), ids[n])

\* diff_roots returning the keys as the loop pushed them
sort_skipped(ids) == ids

\* Vec<String>::sort()
sort(ids) == SortedIdPrefix(ids, Len(ids))

all_keys(local_map, remote_map) == (DOMAIN local_map) \cup (DOMAIN remote_map)

\* order: the order in which all_keys happens to be iterated
diff_roots(local_pairs, remote_pairs, order) ==
    LET local_map == CollectMap(local_pairs, Len(local_pairs))
        remote_map == CollectMap(remote_pairs, Len(remote_pairs))
        out == DiffLoop(local_map, remote_map, order, Len(order))
    IN [to_send |-> sort(out.to_send), to_request |-> sort(out.to_request)]

KeysOf(local_pairs, remote_pairs) ==
    all_keys(CollectMap(local_pairs, Len(local_pairs)),
             CollectMap(remote_pairs, Len(remote_pairs)))

\* a caller diffs two root-sets, and diffs them the other way round
DiffRoots ==
    /\ pc = "input"
    /\ \E o1, o2 \in IterationOrders(KeysOf(local, remote)) :
          result' = [type |-> "diff",
                     fwd |-> diff_roots(local, remote, o1),
                     bwd |-> diff_roots(remote, local, o2)]
    /\ pc' = "returned"
    /\ UNCHANGED <<db, request, response, storage_failed, received, sent,
                   last_read, exit_code, local, remote, peer_db>>

InitDiff ==
    /\ db = EmptyDb
    /\ pc = "input"
    /\ request = NoMsg
    /\ response = NoMsg
    /\ storage_failed = FALSE
    /\ received = <<>>
    /\ sent = <<>>
    /\ last_read = NoInput
    /\ exit_code = "none"
    /\ local \in SeqsUpTo(RootSetVals, MaxEntries)
    /\ remote \in SeqsUpTo(RootSetVals, MaxEntries)
    /\ result = NoMsg
    /\ peer_db = EmptyDb

NextDiff == DiffRoots

SpecDiff == InitDiff /\ [][NextDiff]_vars

----------------------------------------------------------------------------
(* A sync round between two store processes.  db is the store of peer A,   *)
(* peer_db the store of peer B; the host of each peer sends it requests,   *)
(* which handle_request answers as in a session.                           *)

PutRequests ==
    {[type |-> "PutDocument", id |-> i, meta |-> m, crdt_state |-> s] :
        i \in Ids, m \in MetaVals, s \in DataVals}

\* the host of A stores a document
PutAtA ==
    /\ pc = "fill"
    /\ \E req \in PutRequests : db' = handle_request(db, req, 0).db
    /\ UNCHANGED <<pc, request, response, storage_failed, received, sent,
                   last_read, exit_code, local, remote, result, peer_db>>

\* the host of B stores a document
PutAtB ==
    /\ pc = "fill"
    /\ \E req \in PutRequests : peer_db' = handle_request(peer_db, req, 0).db
    /\ UNCHANGED <<db, pc, request, response, storage_failed, received, sent,
                   last_read, exit_code, local, remote, result>>

\* the state_hash values stored at a peer, as its GetRoots reply lists them
KnownRoots(d) ==
    LET roots == handle_request(d, [type |-> "GetRoots", doc_ids |-> <<>>],
                                0).resp.roots
    IN [i \in 1..Len(roots) |-> roots[i].hash]

\* the host sends B GetChanges with the state hashes stored at A
GetChangesAtB ==
    /\ pc = "fill"
    /\ LET req == [type |-> "GetChanges", known_roots |-> KnownRoots(db)]
       IN /\ request' = req
          /\ \E failAt \in 0..StoreCalls(peer_db, req) :
                LET h == handle_request(peer_db, req, failAt)
                IN /\ peer_db' = h.db
                   /\ result' = h.resp
                   /\ storage_failed' = h.failed
    /\ pc' = "changes"
    /\ UNCHANGED <<db, response, received, sent, last_read, exit_code,
                   local, remote>>

\* the host sends the changes B returned to A as ApplyChanges
ApplyChangesAtA ==
    /\ pc = "changes"
    /\ result.type = "Changes"
    /\ LET req == [type |-> "ApplyChanges", changes |-> result.changes]
       IN \E failAt \in 0..StoreCalls(db, req) :
             LET h == handle_request(db, req, failAt)
             IN /\ db' = h.db
                /\ response' = h.resp
                /\ storage_failed' = (storage_failed \/ h.failed)
    /\ pc' = "synced"
    /\ UNCHANGED <<request, received, sent, last_read, exit_code, local,
                   remote, result, peer_db>>

InitSync ==
    /\ db = EmptyDb
    /\ pc = "fill"
    /\ request = NoMsg
    /\ response = NoMsg
    /\ storage_failed = FALSE
    /\ received = <<>>
    /\ sent = <<>>
    /\ last_read = NoInput
    /\ exit_code = "none"
    /\ local = <<>>
    /\ remote = <<>>
    /\ result = NoMsg
    /\ peer_db = EmptyDb

NextSync ==
    \/ PutAtA
    \/ PutAtB
    \/ GetChangesAtB
    \/ ApplyChangesAtA

SpecSync == InitSync /\ [][NextSync]_vars

----------------------------------------------------------------------------
(* Observations of a state *)

InHandler == pc \in {"dispatch", "respond"}
Answered(type) == pc = "respond" /\ request.req.type = type
Dispatching(type) == pc = "dispatch" /\ request.req.type = type

StoredIds(d) == DOMAIN d.documents

\* a complete frame whose payload does not decode
IsGarbled(input) ==
    /\ input.read
    /\ input.prefix = PrefixLen
    /\ input.missing = 0
    /\ deserialize(input.payload).err

TypeOK ==
    /\ pc \in {"loop", "dispatch", "respond", "exit"}
    /\ exit_code \in {"none", "ok", "err"}
    /\ storage_failed \in BOOLEAN
    /\ (pc = "exit") = (exit_code # "none")
    /\ InHandler = (request # NoMsg)
    /\ DigestInjective

----------------------------------------------------------------------------
(* C1.  Tri-consistency: in every state the tables documents, doc_data and *)
(* doc_hashes hold the same set of ids, whatever requests were handled and *)
(* whichever of their transactions failed to commit.                       *)
TriConsistency ==
    /\ DOMAIN db.documents = DOMAIN db.doc_data
    /\ DOMAIN db.doc_data = DOMAIN db.doc_hashes

\* a batch was cut short by a storage failure after one of its changes had
\* been committed
TriConsistencyWitness ==
    /\ Answered("ApplyChanges")
    /\ storage_failed
    /\ StoredIds(db) # {}

(* C2.  For every stored document the doc_hashes entry is the digest of    *)
(* the doc_data entry of the same id, also after ApplyChanges applied a    *)
(* change whose advertised hash is not the digest of its data.             *)
HashIsDigestOfData ==
    \A id \in DOMAIN db.doc_hashes :
        /\ id \in DOMAIN db.doc_data
        /\ db.doc_hashes[id] = Digest(db.doc_data[id])

\* a change with a wrong advertised hash has been stored
HashIsDigestOfDataWitness ==
    /\ Answered("ApplyChanges")
    /\ response = RespOk
    /\ \E i \in 1..Len(request.req.changes) :
          LET c == request.req.changes[i]
          IN /\ c.hash # Digest(c.data)
             /\ Len(c.hash) = HashLen
             /\ Get(db.doc_data, c.doc_id) = Some(c.data)

(* C3.  A request answered with Error leaves all four tables as they were  *)
(* before the request, for every request type, an ApplyChanges batch that  *)
(* fails after its first change included.                                  *)
ErrorLeavesNoPartialState ==
    [][(pc = "dispatch" /\ response'.type = "Error") => db' = db]_vars

(* C4.  Correlation and order: the response frames written are, in number, *)
(* order and ref_id, the request frames read; while a request is being     *)
(* handled its response is the one frame still to come.                    *)
CorrelationAndOrder ==
    /\ pc \in {"loop", "exit"} => sent = received
    /\ InHandler => received = Append(sent, request.ref_id)

\* two requests with the same ref_id have both been answered
CorrelationAndOrderWitness ==
    /\ pc = "loop"
    /\ Len(sent) = 2
    /\ sent[1] = sent[2]

(* C5.  End of input inside a frame (after 1 to 3 bytes of the length      *)
(* prefix, or inside the payload) ends the session with a non-zero exit    *)
(* code; only end of input at a frame boundary exits with 0.               *)
ShortReadIsFatal ==
    /\ (last_read.read /\ (last_read.prefix \in 1..(PrefixLen - 1)
                           \/ last_read.missing > 0))
          => exit_code = "err"
    /\ exit_code = "ok" => (last_read.prefix = 0 /\ last_read.missing = 0)

(* C6.  A storage failure in a handler is answered with Error for that     *)
(* request, never with another response, and does not end the session: the *)
(* response frame is written and main is back at the head of its loop.     *)
StorageFailureIsReported ==
    [][/\ (pc = "dispatch" /\ storage_failed')
            => (response'.type = "Error" /\ pc' = "respond"
                /\ exit_code' = "none")
       /\ (pc = "respond" /\ storage_failed)
            => (pc' = "loop" /\ exit_code' = "none"
                /\ sent' = Append(sent, request.ref_id))
       /\ exit_code' # "none" => pc = "loop"]_vars

\* the second request of a session met a storage failure
StorageFailureIsReportedWitness ==
    /\ pc = "respond"
    /\ storage_failed
    /\ response.type = "Error"
    /\ Len(received) = 2

(* C7.  A complete frame whose payload does not decode ends the session    *)
(* with a failure: no response frame is written for it, the tables are     *)
(* not changed, and nothing is read or executed afterwards.                *)
GarbledFrameEndsSession ==
    [][/\ IsGarbled(last_read')
            => (/\ exit_code' = "err"
                /\ pc' = "exit"
                /\ db' = db
                /\ sent' = sent
                /\ received' = received)
       /\ pc = "exit" => UNCHANGED vars]_vars

\* a garbled frame arrived after a request that had filled the tables
GarbledFrameEndsSessionWitness ==
    /\ pc = "exit"
    /\ IsGarbled(last_read)
    /\ StoredIds(db) # {}
    /\ Len(sent) >= 1

(* C8.  ApplyChanges handles its changes in batch order, each against the  *)
(* tables left by the previous ones: a change whose hash is the stored     *)
(* state_hash of its doc_id changes nothing; any other change upserts the  *)
(* document with empty meta and the incoming data; without a storage       *)
(* failure the reply is Ok.                                                *)
ClaimedApply(d, change) ==
    IF Get(d.doc_hashes, change.doc_id) = Some(change.hash) THEN d
    ELSE [d EXCEPT !.documents = Insert(@, change.doc_id, <<>>),
                   !.doc_data = Insert(@, change.doc_id, change.data),
                   !.doc_hashes = Insert(@, change.doc_id, Digest(change.data))]

RECURSIVE ClaimedApplyAll(_, _)
ClaimedApplyAll(d, changes) ==
    IF Len(changes) = 0 THEN d
    ELSE ClaimedApplyAll(ClaimedApply(d, Head(changes)), Tail(changes))

ApplyChangesInBatchOrder ==
    [][(Dispatching("ApplyChanges") /\ ~storage_failed')
          => (/\ response' = RespOk
              /\ db' = ClaimedApplyAll(db, request.req.changes))]_vars

\* one change of a batch was skipped (its document kept a non-empty meta),
\* another was applied
ApplyChangesInBatchOrderWitness ==
    /\ Answered("ApplyChanges")
    /\ response = RespOk
    /\ Len(request.req.changes) = 2
    /\ LET c1 == request.req.changes[1]
           c2 == request.req.changes[2]
       IN /\ c1.doc_id # c2.doc_id
          /\ Get(db.documents, c1.doc_id) = Some(<<9>>)
          /\ Get(db.doc_hashes, c1.doc_id) = Some(c1.hash)
          /\ Get(db.documents, c2.doc_id) = Some(<<>>)
          /\ Get(db.doc_data, c2.doc_id) = Some(c2.data)

(* C9.  GetChanges replies Changes with exactly one Change per stored      *)
(* document whose state_hash is not in known_roots and none for any other; *)
(* each carries the id, the stored crdt_state as data and the digest of    *)
(* data as hash, and nothing else (no meta).                               *)
StaleIds(d, known_roots) ==
    {id \in StoredIds(d) : d.doc_hashes[id] \notin Range(known_roots)}

GetChangesReply ==
    (Answered("GetChanges") /\ ~storage_failed)
        => /\ response.type = "Changes"
           /\ LET stale == StaleIds(db, request.req.known_roots)
                  changes == response.changes
              IN /\ Len(changes) = Cardinality(stale)
                 /\ Range(changes) =
                       {[doc_id |-> id, data |-> db.doc_data[id],
                         hash |-> Digest(db.doc_data[id])] : id \in stale}
                 /\ \A i \in 1..Len(changes) :
                       DOMAIN changes[i] = {"doc_id", "data", "hash"}

\* of two stored documents one is known to the remote, the other is sent
GetChangesReplyWitness ==
    /\ Answered("GetChanges")
    /\ ~storage_failed
    /\ Cardinality(StoredIds(db)) = 2
    /\ Len(request.req.known_roots) >= 1
    /\ Len(response.changes) = 1

(* C10.  After a committed PutDocument(id, meta, state), get_document(id)  *)
(* is Some((meta, state)) and get_doc_hash(id) is Some(digest(state)),     *)
(* whether or not id was stored before; and a request that does not put,   *)
(* apply a change to or delete an id leaves both results for that id as    *)
(* they were.                                                              *)
Touches(req, id) ==
    \/ req.type \in {"PutDocument", "DeleteDocument"} /\ req.id = id
    \/ /\ req.type = "ApplyChanges"
       /\ \E i \in 1..Len(req.changes) : req.changes[i].doc_id = id

DocumentRoundTrip ==
    [][/\ (Dispatching("PutDocument") /\ response' = RespOk)
            => (/\ get_document(db', request.req.id, FALSE)
                     = Ok(Some(<<request.req.meta, request.req.crdt_state>>))
                /\ get_doc_hash(db', request.req.id, FALSE)
                     = Ok(Some(Digest(request.req.crdt_state))))
       /\ \A id \in Ids :
            (pc = "dispatch" => ~Touches(request.req, id))
               => (/\ get_document(db', id, FALSE) = get_document(db, id, FALSE)
                   /\ get_doc_hash(db', id, FALSE) = get_doc_hash(db, id, FALSE))
      ]_vars

\* a document was put next to one that an earlier batch had stored
DocumentRoundTripWitness ==
    /\ Answered("PutDocument")
    /\ response = RespOk
    /\ Get(db.documents, request.req.id) = Some(<<9>>)
    /\ \E other \in Ids \ {request.req.id} :
          Get(db.documents, other) = Some(<<>>)

(* C11.  Blobs are durable and immutable: a PutBlob that commits returns   *)
(* the digest of its data and the blob is then found under that digest;    *)
(* and no request of any kind removes a stored blob or changes the bytes   *)
(* stored under its digest.                                                *)
BlobsAreDurable ==
    [][/\ \A h \in DOMAIN db.blobs :
            /\ get_blob(db', h, FALSE) = Ok(Some(db.blobs[h]))
            /\ has_blob(db', h, FALSE) = Ok(TRUE)
       /\ (Dispatching("PutBlob") /\ ~storage_failed')
            => LET b == request.req.data
               IN /\ response' = RespBlobStored(Digest(b))
                  /\ get_blob(db', Digest(b), FALSE) = Ok(Some(b))
                  /\ has_blob(db', Digest(b), FALSE) = Ok(TRUE)]_vars

\* a second blob was stored next to the first
BlobsAreDurableWitness ==
    /\ Answered("PutBlob")
    /\ response.type = "BlobStored"
    /\ Cardinality(DOMAIN db.blobs) = 2

(* C12.  DeleteDocument replies Ok exactly when the id was stored before   *)
(* the request and NotFound otherwise; afterwards the id is in none of the *)
(* three document tables; deleting an id that is not stored changes        *)
(* nothing (the second of two deletes in a row).                           *)
DeleteReply ==
    [][(Dispatching("DeleteDocument") /\ ~storage_failed')
          => LET id == request.req.id
             IN /\ response' = IF id \in StoredIds(db) THEN RespOk
                                ELSE RespNotFound
                /\ id \notin DOMAIN db'.documents
                /\ id \notin DOMAIN db'.doc_data
                /\ id \notin DOMAIN db'.doc_hashes
                /\ id \notin StoredIds(db) => db' = db]_vars

\* a stored document was deleted and another one is still there
DeleteReplyWitness ==
    /\ Answered("DeleteDocument")
    /\ response = RespOk
    /\ StoredIds(db) # {}
    /\ request.req.id \notin StoredIds(db)

(* C13.  A request carrying a digest whose length is not 32 bytes (the     *)
(* hash of GetBlob or HasBlob, an entry of known_roots, the hash of a      *)
(* change) is invalid: it is not answered like an ordinary lookup and it   *)
(* does not modify the tables.                                             *)
CarriesBadDigest(req) ==
    CASE req.type \in {"GetBlob", "HasBlob"} -> Len(req.hash) # HashLen
      [] req.type = "GetChanges" ->
            \E i \in 1..Len(req.known_roots) : Len(req.known_roots[i]) # HashLen
      [] req.type = "ApplyChanges" ->
            \E i \in 1..Len(req.changes) : Len(req.changes[i].hash) # HashLen
      [] OTHER -> FALSE

BadDigestIsInvalid ==
    [][(pc = "dispatch" /\ CarriesBadDigest(request.req))
          => (/\ db' = db
              /\ response'.type \notin {"NotFound", "BlobExists", "Changes"})
      ]_vars

(* C14.  GetRoots with an empty doc_ids lists (id, state_hash) of every    *)
(* stored document; with a non-empty doc_ids it lists (id, state_hash) of  *)
(* the requested ids that are stored, in the order of doc_ids, and leaves  *)
(* out the ids that are not stored.                                        *)
GetRootsReply ==
    (Answered("GetRoots") /\ ~storage_failed)
        => /\ response.type = "Roots"
           /\ LET doc_ids == request.req.doc_ids
                  roots == response.roots
                  IsStored(id) == id \in StoredIds(db)
                  wanted == SelectSeq(doc_ids, IsStored)
              IN IF Len(doc_ids) = 0
                 THEN /\ Len(roots) = Cardinality(StoredIds(db))
                      /\ Range(roots) =
                            {[doc_id |-> id, hash |-> db.doc_hashes[id]] :
                                id \in StoredIds(db)}
                 ELSE /\ Len(roots) = Len(wanted)
                      /\ \A i \in 1..Len(wanted) :
                            roots[i] = [doc_id |-> wanted[i],
                                        hash |-> db.doc_hashes[wanted[i]]]

\* two stored documents were asked for against the key order
GetRootsReplyWitness ==
    /\ Answered("GetRoots")
    /\ ~storage_failed
    /\ request.req.doc_ids = <<(<<98>>), (<<97>>)>>
    /\ Len(response.roots) = 2
    /\ response.roots[1].doc_id = <<98>>

----------------------------------------------------------------------------
(* Claims about compute_root, under SpecRoot *)

Bijections(n) ==
    {p \in [1..n -> 1..n] : \A i, j \in 1..n : p[i] = p[j] => i = j}

Reorderings(seq) ==
    {[i \in 1..Len(seq) |-> seq[p[i]]] : p \in Bijections(Len(seq))}

UniqueIds(pairs) ==
    \A i, j \in 1..Len(pairs) : pairs[i][1] = pairs[j][1] => i = j

RootReturned == pc = "returned" /\ result.type = "root"

RootIgnoresOrderOfUniqueIds ==
    (RootReturned /\ UniqueIds(local))
        => \A q \in Reorderings(local) : compute_root(q) = result.root

\* three documents given against the id order
RootIgnoresOrderWitness ==
    /\ RootReturned
    /\ Len(local) = 3
    /\ UniqueIds(local)
    /\ LexLess(local[3][1], local[2][1])
    /\ LexLess(local[2][1], local[1][1])

(* C16.  compute_root is the reference construction: 32 zero bytes for the *)
(* empty input; the digest itself for one pair; otherwise the digests in   *)
(* doc_id order are reduced layer by layer, neighbours (a, b) replaced by  *)
(* digest(a || b) and the last element of an odd layer carried over        *)
(* unchanged, until one digest remains.  (Pairs of equal doc_id keep their *)
(* input order.)                                                           *)
ClaimedRoot(pairs) ==
    LET n == Len(pairs)
        order == CHOOSE p \in Bijections(n) :
                    \A i, j \in 1..n :
                       i < j => \/ LexLess(pairs[p[i]][1], pairs[p[j]][1])
                                \/ /\ pairs[p[i]][1] = pairs[p[j]][1]
                                   /\ p[i] < p[j]
        h(i) == pairs[order[i]][2]
        H(a, b) == Digest(a \o b)
    IN CASE n = 0 -> [i \in 1..32 |-> 0]
         [] n = 1 -> h(1)
         [] n = 2 -> H(h(1), h(2))
         [] n = 3 -> H(H(h(1), h(2)), h(3))
         [] n = 4 -> H(H(h(1), h(2)), H(h(3), h(4)))
         [] n = 5 -> H(H(H(h(1), h(2)), H(h(3), h(4))), h(5))

RootIsReferenceConstruction ==
    RootReturned => result.root = ClaimedRoot(local)

\* an odd layer: the third digest is carried over
RootIsReferenceConstructionWitness ==
    /\ RootReturned
    /\ Len(local) = 3
    /\ UniqueIds(local)
    /\ local[1][2] # local[3][2]

----------------------------------------------------------------------------
(* Claims about diff_roots, under SpecDiff *)

DiffReturned == pc = "returned" /\ result.type = "diff"

Present(pairs, id) == \E i \in 1..Len(pairs) : pairs[i][1] = id

\* the digest a root-set gives an id: that of its last pair of this id
DigestOf(pairs, id) ==
    LET last == CHOOSE i \in 1..Len(pairs) :
                    /\ pairs[i][1] = id
                    /\ \A j \in (i + 1)..Len(pairs) : pairs[j][1] # id
    IN pairs[last][2]

StrictlyAscending(ids) ==
    \A i, j \in 1..Len(ids) : i < j => LexLess(ids[i], ids[j])

(* C17.  diff_roots(local, remote) classifies every id exactly: present on *)
(* both sides with equal digests, in neither output; present on both sides *)
(* with differing digests, in both outputs; present only locally, in       *)
(* to_send only; present only remotely, in to_request only; any other id,  *)
(* in neither output.                                                      *)
DiffClassifies ==
    DiffReturned =>
        LET send == Range(result.fwd.to_send)
            req == Range(result.fwd.to_request)
        IN \A id \in MerkleIds \cup send \cup req :
              LET l == Present(local, id)
                  r == Present(remote, id)
              IN /\ (l /\ r /\ DigestOf(local, id) = DigestOf(remote, id))
                        => (id \notin send /\ id \notin req)
                 /\ (l /\ r /\ DigestOf(local, id) # DigestOf(remote, id))
                        => (id \in send /\ id \in req)
                 /\ (l /\ ~r) => (id \in send /\ id \notin req)
                 /\ (~l /\ r) => (id \notin send /\ id \in req)
                 /\ (~l /\ ~r) => (id \notin send /\ id \notin req)

\* a conflict, a document only here and a document only there
DiffClassifiesWitness ==
    /\ DiffReturned
    /\ result.fwd.to_send = << <<97>>, <<98>> >>
    /\ result.fwd.to_request = << <<97>>, <<97, 98>> >>

(* C18.  Diff symmetry: diff_roots(b, a) returns the two output sequences  *)
(* of diff_roots(a, b) exchanged, element for element.                     *)
DiffSymmetry ==
    DiffReturned =>
        /\ result.bwd.to_send = result.fwd.to_request
        /\ result.bwd.to_request = result.fwd.to_send

\* both outputs non-empty, different, and one of two elements
DiffSymmetryWitness ==
    /\ DiffReturned
    /\ Len(result.fwd.to_send) = 2
    /\ Len(result.bwd.to_send) = 1
    /\ result.fwd.to_send[1] # result.bwd.to_send[1]

(* C19.  Diff canonical order: for all inputs, also those in which a       *)
(* doc_id occurs more than once, each output sequence of diff_roots is     *)
(* strictly ascending in byte-wise id order.                               *)
DiffCanonicalOrder ==
    DiffReturned =>
        /\ StrictlyAscending(result.fwd.to_send)
        /\ StrictlyAscending(result.fwd.to_request)
        /\ StrictlyAscending(result.bwd.to_send)
        /\ StrictlyAscending(result.bwd.to_request)

\* "a" given twice locally; "b" before "ab" remotely
DiffCanonicalOrderWitness ==
    /\ DiffReturned
    /\ ~UniqueIds(local)
    /\ Len(remote) = 2
    /\ LexLess(remote[2][1], remote[1][1])
    /\ result.fwd.to_send = << <<97>> >>
    /\ Len(result.fwd.to_request) = 2

----------------------------------------------------------------------------
(* Claims about a sync round, under SpecSync *)

RoundDone == pc = "synced" /\ ~storage_failed

SameAtA(id) ==
    /\ id \in StoredIds(db)
    /\ db.doc_data[id] = peer_db.doc_data[id]
    /\ db.doc_hashes[id] = peer_db.doc_hashes[id]

(* C20.  One-way sync round: after the host sent B GetChanges with         *)
(* known_roots = the state_hash values stored at A and sent the returned   *)
(* changes to A as ApplyChanges, without a storage failure, every document *)
(* id stored at B is stored at A with the same crdt_state and state_hash.  *)
SyncReconciles ==
    RoundDone => \A id \in StoredIds(peer_db) : SameAtA(id)

(* What the round does achieve: every document of B whose state_hash was   *)
(* not among the known_roots sent to B is at A afterwards, with the same   *)
(* crdt_state and state_hash.                                              *)
SyncTransfersUnknownStates ==
    RoundDone =>
        \A id \in StoredIds(peer_db) :
            peer_db.doc_hashes[id] \notin Range(request.known_roots)
                => SameAtA(id)

----------------------------------------------------------------------------
(* Frame effect of a request, under Spec *)

ReadOnlyTypes ==
    {"GetBlob", "HasBlob", "GetDocument", "ListDocuments", "GetRoots",
     "GetChanges"}

DocumentTypes == {"PutDocument", "DeleteDocument", "ApplyChanges"}

(* C21.  Read-only requests have no effect on the store: GetBlob, HasBlob, *)
(* GetDocument, ListDocuments, GetRoots and GetChanges leave all four      *)
(* tables unchanged, whatever their arguments and their reply; PutBlob     *)
(* leaves the three document tables unchanged; PutDocument, DeleteDocument *)
(* and ApplyChanges leave the blob table unchanged.                        *)
FrameEffect ==
    [][pc = "dispatch" =>
          /\ request.req.type \in ReadOnlyTypes => db' = db
          /\ request.req.type = "PutBlob"
                => /\ db'.documents = db.documents
                   /\ db'.doc_data = db.doc_data
                   /\ db'.doc_hashes = db.doc_hashes
          /\ request.req.type \in DocumentTypes => db'.blobs = db.blobs]_vars

\* a stored document read back, the second request of the session
FrameEffectWitness ==
    /\ Answered("GetDocument")
    /\ response.type = "Document"
    /\ request.req.id \in StoredIds(db)
    /\ Len(received) = 2

====
